---- MODULE Spec2Model ----
(***************************************************************************)
(* The three decision servers of the repository                           *)
(*   simulation/thompson_server.py  (Thompson sampling, warm-up gate)      *)
(*   simulation/ucb1_server.py      (UCB1)                                 *)
(*   simulation/ab_test_server.py   (classic alternation)                  *)
(* and the arm classes of models/bandits.py, as one state machine.         *)
(*                                                                         *)
(* The servers are Flask applications: app.run() serves every request on   *)
(* its own thread and the handlers take no lock, so the handlers of        *)
(* several requests interleave.  A handler is modelled as the sequence of  *)
(* its statements; a statement that reads shared state and writes it back  *)
(* (x += 1, ctr_estimate = f(ctr_estimate)) is a load step and a store     *)
(* step.  The reads inside one expression are taken together.              *)
(***************************************************************************)
EXTENDS Integers, Sequences, FiniteSets, TLC

\* ------------------------------------------------------------------ bounds
NumThreads == 2   \* request threads of the server
MaxReq == 2       \* requests accepted in one run
LongReq == 3      \* requests accepted in one longer run
NumSamples == 2   \* distinct values a random draw can take (ordered)

Threads == 1..NumThreads
SampleVals == 1..NumSamples

\* --------------------------------------------------------------- constants
Arms == {"A", "B"}
\* request.form["button"]: the two arm names and one name that is neither
Buttons == {"A", "B", "X"}
Kinds == {"thompson", "ucb1", "classic"}

\* thompson_server.py:32, the warm-up window
Window == 500
\* thompson_server.py:22
snapshot_points == {50, 150, 400, 700, 1300, 2000}

VARIABLES
  kind,                \* which server module is running
  prior,               \* ThompsonBandit.a_prior / b_prior per arm
  minimum_exploration, \* ThompsonBandit.minimum_exploration per arm
  views,               \* <bandit>.views per arm
  clicks,              \* <bandit>.clicks per arm
  ctr_estimate,        \* UCB1Bandit.ctr_estimate per arm, a fraction <<num, den>>
  decisions,           \* the module-level list decisions
  current_assignment,  \* ab_test_server.py's global
  pc,                  \* per thread: the statement its handler is at
  loc,                 \* per thread: the handler's locals
  response,            \* the body of the response sent in the last step, if any
  tickets,             \* client side: the answered shows, <<record index, button>>
  reported,            \* client side: record indices a click was sent for
  stores,              \* history: completed add_view / add_click stores per arm
  policyUsed,          \* history: a Thompson show decided by the policy has returned
  raised,              \* history: some handler has ended in an exception
  snapshots,           \* history: what each posterior snapshot read, in order
  nreq                 \* requests accepted so far

vars == <<kind, prior, minimum_exploration, views, clicks, ctr_estimate,
          decisions, current_assignment, pc, loc, response, tickets,
          reported, stores, policyUsed, raised, snapshots, nreq>>

server == <<kind, prior, minimum_exploration>>

\* ------------------------------------------------------------ pure helpers
OtherBug(arm) == arm
Other(arm) == IF arm = "A" THEN "B" ELSE "A"

RECURSIVE GCD(_, _)
GCD(a, b) == IF b = 0 THEN a ELSE GCD(b, a % b)

\* a fraction in lowest terms
Frac(num, den) == LET g == GCD(num, den) IN <<num \div g, den \div g>>

\* floor(ln(n) * 10^8) for n = 1..24
LnTable == <<0, 69314718, 109861228, 138629436, 160943791, 179175946,
             194591014, 207944154, 219722457, 230258509, 239789527,
             248490664, 256494935, 263905732, 270805020, 277258872,
             283321334, 289037175, 294443897, 299573227, 304452243,
             309104245, 313549421, 317805383>>

RECURSIVE NewtonSqrt(_, _)
NewtonSqrt(x, r) ==
  LET nxt == (r + x \div r) \div 2
  IN IF nxt >= r THEN r ELSE NewtonSqrt(x, nxt)

\* floor(sqrt(x)), 0 <= x < 2^31
ISqrt(x) == IF x = 0 THEN 0 ELSE NewtonSqrt(x, 46340)

\* ClassicABTest is imported by ab_test_server.py from models.bandits, which
\* does not define it; its counters are taken to start at 0 and to be
\* incremented by add_view and add_click like the other two classes'
ClassicABTestViews == 0

\* the views an arm is constructed with: UCB1Bandit starts at 1 "to avoid
\* division by zero", ThompsonBandit at 0
SeedViewsBug(k) == 0
SeedViews(k) ==
  IF k = "ucb1" THEN 1 ELSE IF k = "thompson" THEN 0 ELSE ClassicABTestViews

\* the constant subtracted from the total views in click_button's index
OffsetBug(k) == 1
Offset(k) == IF k = "ucb1" THEN 3 ELSE 1

\* UCB1Bandit.sample(n_samples), in units of 10^-4:
\* ctr_estimate + sqrt(3 * log(n_samples) / views)
Score(ctr, v, n) ==
  (10000 * ctr[1]) \div ctr[2] + ISqrt((3 * LnTable[n]) \div v)

\* UCB1Bandit.add_click line 40: ((views - 1) * ctr_estimate + 1) / views
RunningMean(ctr, v) == Frac((v - 1) * ctr[1] + ctr[2], ctr[2] * v)

\* ThompsonBandit.sample: the Beta parameters; numpy raises ValueError
\* unless both are positive
BetaA(arm) == prior[arm].a + clicks[arm]
BetaB(arm) == prior[arm].b + views[arm] - clicks[arm]
BetaOk(arm) == BetaA(arm) > 0 /\ BetaB(arm) > 0

\* BanditVisualizer.plot_posterior raises when a Beta draw does, and when
\* the denominator of a label's CTR, b_prior + views - 1, is 0
PlotPosteriorRaises ==
  \/ ~(BetaOk("A") /\ BetaOk("B"))
  \/ \E arm \in Arms : prior[arm].b + views[arm] - 1 = 0

\* what BanditVisualizer.plot_posterior reads of the two bandits: the
\* parameters of its Beta draws and the counters of its labels
Posterior ==
  [a \in Arms |-> [alpha |-> BetaA(a), beta |-> BetaB(a),
                   views |-> views[a], clicks |-> clicks[a]]]

\* analyze_and_save_results, lines 39-42: the a_alpha / b_alpha and
\* a_beta / b_beta columns of the results row
ResultsAlpha(arm) == 1 + clicks[arm]
ResultsBeta(arm) == 1 + views[arm] - clicks[arm]

\* analyze_and_save_results, lines 13-14: clicks / views of each arm comes
\* first and raises ZeroDivisionError for an arm with no views, so a row is
\* written only when both arms have views
ResultsRowWritten == \A arm \in Arms : views[arm] # 0

\* The tallies analyze_and_save_results takes as explorations and
\* exploitations.  No show handler calls UCB1Bandit.is_exploring and no
\* module holds or increments a tally, so no decision is ever counted
explorations == 0
exploitations == 0

\* the comparison of show: A only when strictly larger
SelectBug(sa, sb) == IF sa >= sb THEN "A" ELSE "B"
Select(sa, sb) == IF sa > sb THEN "A" ELSE "B"

\* thompson_server.py:29,32, the warm-up gate
ForceRandom(n) ==
  (minimum_exploration["A"] /\ minimum_exploration["B"]) /\ n < Window

\* Python's list index: position (1-based) of decisions[i] in a list of
\* length len, 0 when decisions[i] raises IndexError
PyIndex(len, i) ==
  IF 0 <= i /\ i < len THEN i + 1
  ELSE IF -len <= i /\ i < 0 THEN len + i + 1
  ELSE 0

\* ------------------------------------------------------------------- state
Blank == [op |-> "none", n_views |-> 0, sample_a |-> 0, sample_b |-> 0,
          arm |-> "", button |-> "", tmp |-> 0, tmpctr |-> <<0, 1>>,
          result |-> "", rec |-> 0, forced |-> FALSE, dup |-> FALSE,
          unseen |-> FALSE]

\* the configurations of thompson_server.py:16-18: the priors as committed
\* with minimum exploration off ("TS_priors"), and flat priors with minimum
\* exploration on ("TS_min_exp")
ThompsonConfigs ==
  { [prior |-> [A |-> [a |-> 6, b |-> 78], B |-> [a |-> 1, b |-> 1]],
     minexp |-> [A |-> FALSE, B |-> FALSE]],
    [prior |-> [A |-> [a |-> 1, b |-> 1], B |-> [a |-> 1, b |-> 1]],
     minexp |-> [A |-> TRUE, B |-> TRUE]] }

NoConfig ==
  [prior |-> [A |-> [a |-> 0, b |-> 0], B |-> [a |-> 0, b |-> 0]],
   minexp |-> [A |-> FALSE, B |-> FALSE]]

InitServer(k, cfg) ==
  /\ kind = k
  /\ prior = cfg.prior
  /\ minimum_exploration = cfg.minexp
  /\ views = [a \in Arms |-> SeedViews(k)]
  /\ clicks = [a \in Arms |-> 0]
  /\ ctr_estimate = [a \in Arms |-> <<0, 1>>]
  /\ decisions = <<>>
  /\ current_assignment = "A"
  /\ pc = [t \in Threads |-> "idle"]
  /\ loc = [t \in Threads |-> Blank]
  /\ response = ""
  /\ tickets = {}
  /\ reported = {}
  /\ stores = [a \in Arms |-> [views |-> 0, clicks |-> 0]]
  /\ policyUsed = FALSE
  /\ raised = FALSE
  /\ snapshots = <<>>
  /\ nreq = 0

Init ==
  \E k \in Kinds :
    \E cfg \in (IF k = "thompson" THEN ThompsonConfigs ELSE {NoConfig}) :
      InitServer(k, cfg)

\* ---------------------------------------------------------------- handlers
\* the locals of a handler that has just been entered
Enter(op) == [Blank EXCEPT !.op = op]

\* a handler leaves with response r
Leave(t, r) ==
  /\ pc' = [pc EXCEPT ![t] = "idle"]
  /\ loc' = [loc EXCEPT ![t] = Blank]
  /\ response' = r
  /\ raised' = (raised \/ r = "Exception")

\* an uncaught Python exception: Flask answers 500
Raise(t) == Leave(t, "Exception")

\* The server starts a fresh thread for each request, so which free thread
\* takes it is immaterial: the lowest free one does.  The run has accepted
\* fewer than lim requests
Accepting(t, lim) ==
  /\ pc[t] = "idle"
  /\ \A u \in Threads : u < t => pc[u] # "idle"
  /\ nreq < lim

\* show: n_views = banditA.views + banditB.views
\* (the first statement of the Thompson show, the second of the UCB1 show)
ShowRead(t, lim) ==
  /\ \/ kind = "thompson" /\ Accepting(t, lim)
     \/ kind = "ucb1" /\ pc[t] = "show_read"
  /\ LET n == views["A"] + views["B"]
         l == IF pc[t] = "idle" THEN Enter("show") ELSE loc[t]
     IN loc' = [loc EXCEPT ![t] = [l EXCEPT !.n_views = n]]
  /\ pc' = [pc EXCEPT ![t] =
              IF kind = "thompson" THEN "show_append" ELSE "show_sample"]
  /\ nreq' = IF pc[t] = "idle" THEN nreq + 1 ELSE nreq
  /\ response' = ""
  /\ UNCHANGED <<raised, server, snapshots, views, clicks, ctr_estimate, decisions,
                 current_assignment, tickets, reported, stores, policyUsed>>

\* show: decisions.append(0)
\* (the first statement of the UCB1 and classic shows)
ShowAppend(t, lim) ==
  /\ \/ kind = "thompson" /\ pc[t] = "show_append"
     \/ kind # "thompson" /\ Accepting(t, lim)
  /\ decisions' = Append(decisions, 0)
  /\ LET l == IF pc[t] = "idle" THEN Enter("show") ELSE loc[t]
     IN loc' = [loc EXCEPT ![t] = [l EXCEPT !.rec = Len(decisions) + 1]]
  /\ pc' = [pc EXCEPT ![t] =
              IF kind = "thompson" THEN "show_sample"
              ELSE IF kind = "ucb1" THEN "show_read" ELSE "show_test"]
  /\ nreq' = IF pc[t] = "idle" THEN nreq + 1 ELSE nreq
  /\ response' = ""
  /\ UNCHANGED <<raised, server, snapshots, views, clicks, ctr_estimate, current_assignment,
                 tickets, reported, stores, policyUsed>>

\* show: the comparison of the two samples and the branch it takes; forced
\* tells whether the samples came from the warm-up gate's random draws
Pick(t, sa, sb, forced) ==
  /\ loc' = [loc EXCEPT ![t] = [loc[t] EXCEPT !.forced = forced,
                                              !.sample_a = sa,
                                              !.sample_b = sb,
                                              !.button = Select(sa, sb),
                                              !.arm = Select(sa, sb)]]
  /\ pc' = [pc EXCEPT ![t] = "add_view_load"]
  /\ response' = ""
  /\ UNCHANGED raised

\* thompson_server.show: the gate, the two samples and the comparison.
\* Inside the window both samples are np.random.random(); otherwise they are
\* the arms' Beta draws, which raise ValueError on a non-positive parameter
ShowSample(t) ==
  /\ kind = "thompson" /\ pc[t] = "show_sample"
  /\ IF ForceRandom(loc[t].n_views)
     THEN \E sa, sb \in SampleVals : Pick(t, sa, sb, TRUE)
     ELSE IF BetaOk("A") /\ BetaOk("B")
     THEN \E sa, sb \in SampleVals : Pick(t, sa, sb, FALSE)
     ELSE Raise(t)
  /\ UNCHANGED <<server, snapshots, views, clicks, ctr_estimate, decisions,
                 current_assignment, tickets, reported, stores, policyUsed,
                 nreq>>

\* ucb1_server.show: the two scores and the comparison
ShowScore(t) ==
  /\ kind = "ucb1" /\ pc[t] = "show_sample"
  /\ Pick(t, Score(ctr_estimate["A"], views["A"], loc[t].n_views),
             Score(ctr_estimate["B"], views["B"], loc[t].n_views), FALSE)
  /\ response' = ""
  /\ UNCHANGED <<raised, server, snapshots, views, clicks, ctr_estimate, decisions,
                 current_assignment, tickets, reported, stores, policyUsed,
                 nreq>>

\* ab_test_server.show: if current_assignment == "A"
ShowTest(t) ==
  /\ kind = "classic" /\ pc[t] = "show_test"
  /\ loc' = [loc EXCEPT ![t] = [loc[t] EXCEPT !.arm = current_assignment]]
  /\ pc' = [pc EXCEPT ![t] = "add_view_load"]
  /\ response' = ""
  /\ UNCHANGED <<raised, server, snapshots, views, clicks, ctr_estimate, decisions,
                 current_assignment, tickets, reported, stores, policyUsed,
                 nreq>>

\* add_view: self.views += 1, the load
AddViewLoad(t) ==
  /\ pc[t] = "add_view_load"
  /\ loc' = [loc EXCEPT ![t] = [loc[t] EXCEPT !.tmp = views[loc[t].arm]]]
  /\ pc' = [pc EXCEPT ![t] = "add_view_store"]
  /\ response' = ""
  /\ UNCHANGED <<raised, server, snapshots, views, clicks, ctr_estimate, decisions,
                 current_assignment, tickets, reported, stores, policyUsed,
                 nreq>>

\* add_view: self.views += 1, the store
AddViewStore(t) ==
  /\ pc[t] = "add_view_store"
  /\ views' = [views EXCEPT ![loc[t].arm] = loc[t].tmp + 1]
  /\ loc' = [loc EXCEPT ![t] = [loc[t] EXCEPT !.tmp = 0]]
  /\ stores' = [stores EXCEPT ![loc[t].arm].views = @ + 1]
  /\ pc' = [pc EXCEPT ![t] =
              IF kind = "classic" THEN "show_toggle" ELSE "show_return"]
  /\ response' = ""
  /\ UNCHANGED <<raised, server, snapshots, clicks, ctr_estimate, decisions, current_assignment,
                 tickets, reported, policyUsed, nreq>>

\* ab_test_server.show: current_assignment = "B" / "A"
ShowToggle(t) ==
  /\ kind = "classic" /\ pc[t] = "show_toggle"
  /\ current_assignment' = Other(loc[t].arm)
  /\ pc' = [pc EXCEPT ![t] = "show_return"]
  /\ response' = ""
  /\ UNCHANGED <<raised, server, snapshots, views, clicks, ctr_estimate, decisions, loc,
                 tickets, reported, stores, policyUsed, nreq>>

\* the name show answers with: the local button, and in the classic server
\* the global current_assignment
Returned(t) == IF kind = "classic" THEN current_assignment ELSE loc[t].button

\* show: return jsonify({"button": button}); the client now holds the answer
Answer(t) ==
  /\ Leave(t, Returned(t))
  /\ tickets' = tickets \union {<<loc[t].rec, Returned(t)>>}
  /\ policyUsed' = (policyUsed \/ (kind = "thompson" /\ ~loc[t].forced))

\* BanditVisualizer.plot_posterior: reads both bandits, draws and saves the
\* plot, and assigns to no field of either bandit
PlotPosteriorBug ==
  /\ snapshots' = Append(snapshots, [at |-> stores, saw |-> Posterior])
  /\ views' = [views EXCEPT !["A"] = 0]
  /\ UNCHANGED <<prior, clicks, ctr_estimate>>
PlotPosterior ==
  /\ snapshots' = Append(snapshots, [at |-> stores, saw |-> Posterior])
  /\ UNCHANGED <<prior, views, clicks, ctr_estimate>>

\* show: the snapshot when the n_views read at the start is a snapshot
\* point, and the return
ShowReturn(t) ==
  /\ pc[t] = "show_return"
  /\ IF kind = "thompson" /\ loc[t].n_views \in snapshot_points
     THEN IF PlotPosteriorRaises
          THEN /\ Raise(t)
               /\ UNCHANGED <<tickets, policyUsed, snapshots, prior, views,
                              clicks, ctr_estimate>>
          ELSE PlotPosterior /\ Answer(t)
     ELSE /\ Answer(t)
          /\ UNCHANGED <<snapshots, prior, views, clicks, ctr_estimate>>
  /\ UNCHANGED <<kind, minimum_exploration, decisions, current_assignment,
                 reported, stores, nreq>>

\* click_button: result = "OK" and the test of request.form["button"].
\* b is the button of the request; k is the record of the show the client
\* answers (0: none), known to the client alone
ClickStart(t, b, k, lim) ==
  /\ Accepting(t, lim)
  /\ loc' = [loc EXCEPT ![t] =
       [Enter("click") EXCEPT
          !.button = b,
          !.result = IF b \in Arms THEN "OK" ELSE "Invalid Input.",
          !.rec = k,
          !.dup = (k \in reported),
          !.unseen = (b \in Arms /\ views[b] = SeedViews(kind))]]
  /\ pc' = [pc EXCEPT ![t] = IF b \in Arms THEN "add_click_load" ELSE "mark"]
  /\ reported' = IF k = 0 THEN reported ELSE reported \union {k}
  /\ nreq' = nreq + 1
  /\ response' = ""
  /\ UNCHANGED <<raised, server, snapshots, views, clicks, ctr_estimate, decisions,
                 current_assignment, tickets, stores, policyUsed>>

\* add_click: self.clicks += 1, the load
AddClickLoad(t) ==
  /\ pc[t] = "add_click_load"
  /\ loc' = [loc EXCEPT ![t] = [loc[t] EXCEPT !.tmp = clicks[loc[t].button]]]
  /\ pc' = [pc EXCEPT ![t] = "add_click_store"]
  /\ response' = ""
  /\ UNCHANGED <<raised, server, snapshots, views, clicks, ctr_estimate, decisions,
                 current_assignment, tickets, reported, stores, policyUsed,
                 nreq>>

\* add_click: self.clicks += 1, the store
AddClickStore(t) ==
  /\ pc[t] = "add_click_store"
  /\ clicks' = [clicks EXCEPT ![loc[t].button] = loc[t].tmp + 1]
  /\ loc' = [loc EXCEPT ![t] = [loc[t] EXCEPT !.tmp = 0]]
  /\ stores' = [stores EXCEPT ![loc[t].button].clicks = @ + 1]
  /\ pc' = [pc EXCEPT ![t] = IF kind = "ucb1" THEN "ctr_load" ELSE "mark"]
  /\ response' = ""
  /\ UNCHANGED <<raised, server, snapshots, views, ctr_estimate, decisions, current_assignment,
                 tickets, reported, policyUsed, nreq>>

\* UCB1Bandit.add_click: the right-hand side of the running average
CtrLoad(t) ==
  /\ kind = "ucb1" /\ pc[t] = "ctr_load"
  /\ loc' = [loc EXCEPT ![t] = [loc[t] EXCEPT !.tmpctr =
       RunningMean(ctr_estimate[loc[t].button], views[loc[t].button])]]
  /\ pc' = [pc EXCEPT ![t] = "ctr_store"]
  /\ response' = ""
  /\ UNCHANGED <<raised, server, snapshots, views, clicks, ctr_estimate, decisions,
                 current_assignment, tickets, reported, stores, policyUsed,
                 nreq>>

\* UCB1Bandit.add_click: the assignment to self.ctr_estimate
CtrStore(t) ==
  /\ kind = "ucb1" /\ pc[t] = "ctr_store"
  /\ ctr_estimate' = [ctr_estimate EXCEPT ![loc[t].button] = loc[t].tmpctr]
  /\ loc' = [loc EXCEPT ![t] = [loc[t] EXCEPT !.tmpctr = <<0, 1>>]]
  /\ pc' = [pc EXCEPT ![t] = "mark"]
  /\ response' = ""
  /\ UNCHANGED <<raised, server, snapshots, views, clicks, decisions, current_assignment, tickets, reported, stores, policyUsed, nreq>>

\* the position click_button writes: the total views less the offset
MarkIndex == PyIndex(Len(decisions), views["A"] + views["B"] - Offset(kind))

\* click_button: decisions[banditA.views + banditB.views - 1] = 1
Mark(t) ==
  /\ pc[t] = "mark"
  /\ IF MarkIndex = 0
     THEN Raise(t) /\ UNCHANGED decisions
     ELSE /\ decisions' = [decisions EXCEPT ![MarkIndex] = 1]
          /\ pc' = [pc EXCEPT ![t] = "click_return"]
          /\ response' = ""
          /\ UNCHANGED <<loc, raised>>
  /\ UNCHANGED <<server, snapshots, views, clicks, ctr_estimate, current_assignment,
                 tickets, reported, stores, policyUsed, nreq>>

\* click_button: return jsonify({"result": result})
ClickReturn(t) ==
  /\ pc[t] = "click_return"
  /\ Leave(t, loc[t].result)
  /\ UNCHANGED <<server, snapshots, views, clicks, ctr_estimate, decisions,
                 current_assignment, tickets, reported, stores, policyUsed,
                 nreq>>

\* the record a click for button b answers: one of the shows that returned
\* b, and none (0) when no show has
Answerable(b) ==
  LET recs == {tk[1] : tk \in {x \in tickets : x[2] = b}}
  IN IF recs = {} THEN {0} ELSE recs

\* the steps of the server's handlers in a run of at most lim requests
Run(lim) ==
  \E t \in Threads :
    \/ ShowRead(t, lim)
    \/ ShowAppend(t, lim)
    \/ ShowSample(t)
    \/ ShowScore(t)
    \/ ShowTest(t)
    \/ AddViewLoad(t)
    \/ AddViewStore(t)
    \/ ShowToggle(t)
    \/ ShowReturn(t)
    \/ \E b \in Buttons : \E k \in Answerable(b) : ClickStart(t, b, k, lim)
    \/ AddClickLoad(t)
    \/ AddClickStore(t)
    \/ CtrLoad(t)
    \/ CtrStore(t)
    \/ Mark(t)
    \/ ClickReturn(t)

Next == Run(MaxReq)

Spec == Init /\ [][Next]_vars

\* the same servers over one more request: a show, a second client's show
\* and a click, or a show and two clicks
NextLong == Run(LongReq)

SpecLong == Init /\ [][NextLong]_vars

\* ------------------------------------------------------ the warm-up window
\* The Thompson server with minimum exploration on ("TS_min_exp"), GateLead
\* shows short of the window: the state after Window - GateLead sequential
\* shows that all drew A and were answered by no click.
GateLead == 2
GateReq == 5      \* requests accepted in one run from there

GateConfig ==
  [prior |-> [A |-> [a |-> 1, b |-> 1], B |-> [a |-> 1, b |-> 1]],
   minexp |-> [A |-> TRUE, B |-> TRUE]]

InitGate ==
  /\ kind = "thompson"
  /\ prior = GateConfig.prior
  /\ minimum_exploration = GateConfig.minexp
  /\ views = [A |-> Window - GateLead, B |-> 0]
  /\ clicks = [a \in Arms |-> 0]
  /\ ctr_estimate = [a \in Arms |-> <<0, 1>>]
  /\ decisions = [i \in 1..(Window - GateLead) |-> 0]
  /\ current_assignment = "A"
  /\ pc = [t \in Threads |-> "idle"]
  /\ loc = [t \in Threads |-> Blank]
  /\ response = ""
  /\ tickets = {}
  /\ reported = {}
  /\ stores = [A |-> [views |-> Window - GateLead, clicks |-> 0],
               B |-> [views |-> 0, clicks |-> 0]]
  /\ policyUsed = FALSE
  /\ raised = FALSE
  /\ snapshots = <<>>
  /\ nreq = 0

\* show requests alone: clients whose simulated action is 0 send no click
NextGate ==
  \E t \in Threads :
    \/ ShowRead(t, GateReq)
    \/ ShowAppend(t, GateReq)
    \/ ShowSample(t)
    \/ AddViewLoad(t)
    \/ AddViewStore(t)
    \/ ShowReturn(t)

SpecGate == InitGate /\ [][NextGate]_vars

\* --------------------------------------------------------- sequential use
\* One request at a time: the next request is sent after the previous one
\* was answered, so one thread runs every handler.  Any request may follow
\* any other.
SeqReq == 6       \* requests accepted in one sequential run

NextSeq ==
  \/ ShowRead(1, SeqReq)
  \/ ShowAppend(1, SeqReq)
  \/ ShowSample(1)
  \/ ShowScore(1)
  \/ ShowTest(1)
  \/ AddViewLoad(1)
  \/ AddViewStore(1)
  \/ ShowToggle(1)
  \/ ShowReturn(1)
  \/ \E b \in Buttons : \E k \in Answerable(b) : ClickStart(1, b, k, SeqReq)
  \/ AddClickLoad(1)
  \/ AddClickStore(1)
  \/ CtrLoad(1)
  \/ CtrStore(1)
  \/ Mark(1)
  \/ ClickReturn(1)

SpecSeq == Init /\ [][NextSeq]_vars

\* ------------------------------------------------------ the client's loop
\* client.py:24-41: GET /show, then, when the simulated action is 1, one
\* POST /click_button with the button that show returned, then the next
\* show.  r.json() fails on a show answered 500 and ends the loop, so no
\* request is sent once a handler has raised.
ClientReq == 8    \* requests the client sends in one run

\* the answer of the latest show, while no click has been sent for it
LatestTicket ==
  {tk \in tickets : tk[1] = Len(decisions) /\ tk[1] \notin reported}

NextClient ==
  \/ ~raised /\ ShowRead(1, ClientReq)
  \/ ~raised /\ ShowAppend(1, ClientReq)
  \/ ShowSample(1)
  \/ ShowScore(1)
  \/ ShowTest(1)
  \/ AddViewLoad(1)
  \/ AddViewStore(1)
  \/ ShowToggle(1)
  \/ ShowReturn(1)
  \/ ~raised /\ \E tk \in LatestTicket :
                   ClickStart(1, tk[2], tk[1], ClientReq)
  \/ AddClickLoad(1)
  \/ AddClickStore(1)
  \/ CtrLoad(1)
  \/ CtrStore(1)
  \/ Mark(1)
  \/ ClickReturn(1)

SpecClient == Init /\ [][NextClient]_vars

\* ------------------------------------------------------ the first snapshot
\* The Thompson server as committed, SnapLead shows short of its first
\* snapshot point: the state after that many sequential shows answered by no
\* click, of which all, or all but one, drew A.
SnapLead == 0
SnapReq == 2      \* requests accepted in one run from there

SnapAt == CHOOSE n \in snapshot_points : \A m \in snapshot_points : n <= m

SnapConfig ==
  [prior |-> [A |-> [a |-> 6, b |-> 78], B |-> [a |-> 1, b |-> 1]],
   minexp |-> [A |-> FALSE, B |-> FALSE]]

InitSnap ==
  \E vb \in {0, 1} :
    /\ kind = "thompson"
    /\ prior = SnapConfig.prior
    /\ minimum_exploration = SnapConfig.minexp
    /\ views = [A |-> SnapAt - SnapLead - vb, B |-> vb]
    /\ clicks = [a \in Arms |-> 0]
    /\ ctr_estimate = [a \in Arms |-> <<0, 1>>]
    /\ decisions = [i \in 1..(SnapAt - SnapLead) |-> 0]
    /\ current_assignment = "A"
    /\ pc = [t \in Threads |-> "idle"]
    /\ loc = [t \in Threads |-> Blank]
    /\ response = ""
    /\ tickets = {}
    /\ reported = {}
    /\ stores = [A |-> [views |-> SnapAt - SnapLead - vb, clicks |-> 0],
                 B |-> [views |-> vb, clicks |-> 0]]
    /\ policyUsed = FALSE
    /\ raised = FALSE
    /\ snapshots = <<>>
    /\ nreq = 0

NextSnap ==
  \E t \in Threads :
    \/ ShowRead(t, SnapReq)
    \/ ShowAppend(t, SnapReq)
    \/ ShowSample(t)
    \/ AddViewLoad(t)
    \/ AddViewStore(t)
    \/ ShowReturn(t)
    \/ \E b \in Buttons : \E k \in Answerable(b) : ClickStart(t, b, k, SnapReq)
    \/ AddClickLoad(t)
    \/ AddClickStore(t)
    \/ Mark(t)
    \/ ClickReturn(t)

SpecSnap == InitSnap /\ [][NextSnap]_vars

\* ------------------------------------------------------------------ claims
\* no handler is running
Quiescent == \A t \in Threads : pc[t] = "idle"

\* thread t's handler takes the step
Steps(t) == pc'[t] # pc[t]

\* thread t's handler returns a response (not an exception) in the step
Answers(t) == pc[t] # "idle" /\ pc'[t] = "idle" /\ response' # "Exception"

\* C1: after every operation of a run in which every request was answered
\* without an exception, each arm satisfies 0 <= clicks <= views.
C1_ClicksWithinViews ==
  (Quiescent /\ ~raised) =>
    \A a \in Arms : 0 <= clicks[a] /\ clicks[a] <= views[a]

\* C2: a second positive outcome report for the same show decision is
\* answered with an already-resolved error, and no step of its handler
\* changes the clicks or views of either arm.
C2_SecondReportRejected ==
  [][\A t \in Threads :
       (loc[t].op = "click" /\ loc[t].dup /\ Steps(t)) =>
         /\ clicks' = clicks
         /\ views' = views
         /\ (pc'[t] = "idle" => response' = "AlreadyResolvedError")]_vars

\* C3: whatever the interleaving of the clients' requests, a positive outcome
\* report sets the decision record appended by the show it answers, and no
\* other record.
C3_MarksAnsweredRecord ==
  [][\A t \in Threads :
       (pc[t] = "mark" /\ loc[t].rec # 0 /\ Steps(t)) =>
         decisions' = [decisions EXCEPT ![loc[t].rec] = 1]]_vars

\* C4: in every state, the number of decision records equals the number of
\* views credited by show (the total views less the seeded views).
C4_IssueAtomic ==
  Len(decisions) = views["A"] + views["B"] - 2 * SeedViews(kind)

\* C5: no lost update: once every request of a run has been answered without
\* an exception, each arm's views stand at the seed plus the number of
\* add_view calls made on it, and its clicks at the number of add_click
\* calls made on it.
C5_NoLostUpdate ==
  (Quiescent /\ ~raised) =>
    \A a \in Arms :
      /\ views[a] = SeedViews(kind) + stores[a].views
      /\ clicks[a] = stores[a].clicks

\* C6: a click reported for an arm with no view credited to it is answered
\* with an explicit invalid-state error (not an exception), and no step of
\* its handler changes the arm counters or the decision log.
C6_UnseenClickRejected ==
  [][\A t \in Threads :
       (loc[t].op = "click" /\ loc[t].unseen /\ Steps(t)) =>
         /\ clicks' = clicks
         /\ views' = views
         /\ decisions' = decisions
         /\ (pc'[t] = "idle" => response' = "InvalidStateError")]_vars

\* C7: in the UCB1 server each arm has views >= 1 in every state, and every
\* call of the score gets n_samples >= 2.
C7_UCB1Seeded ==
  kind = "ucb1" =>
    /\ \A a \in Arms : views[a] >= 1
    /\ \A t \in Threads : pc[t] = "show_sample" => loc[t].n_views >= 2

\* C7's case: a UCB1 score is about to be computed after earlier shows
C7_Witness ==
  /\ kind = "ucb1"
  /\ \E t \in Threads : pc[t] = "show_sample" /\ loc[t].n_views > 2

\* C8: the arm name a show returns is the arm whose view counter that show
\* incremented.
C8_ReturnsCreditedArm ==
  [][\A t \in Threads :
       (pc[t] = "show_return" /\ Answers(t)) =>
         response' = loc[t].arm]_vars

\* C9: in the Thompson server a decision is force-random if and only if
\* minimum exploration is enabled on both arms and the total views the show
\* read are below the window; and once a show decided by the policy has
\* returned, no show that starts later is force-random.
C9_WarmupGate ==
  [][\A t \in Threads :
       /\ (kind = "thompson" /\ pc[t] = "show_sample"
           /\ pc'[t] = "add_view_load") =>
            (loc'[t].forced <=>
               (/\ minimum_exploration["A"]
                /\ minimum_exploration["B"]
                /\ loc[t].n_views < Window))
       /\ (kind = "thompson" /\ policyUsed /\ pc[t] = "idle"
           /\ pc'[t] = "show_append") =>
            ~(/\ minimum_exploration["A"]
              /\ minimum_exploration["B"]
              /\ loc'[t].n_views < Window)]_vars

\* the show handler with these locals has drawn two equal samples or scores
Tied(l) == l.op = "show" /\ l.sample_a # 0 /\ l.sample_a = l.sample_b

\* C10: a show whose two samples or scores are equal selects B: B is the
\* button and the arm add_view is called on, the handler's store writes B's
\* views (the loaded value plus 1) and no step of it changes A's views, and
\* B is the name returned.
C10_TieSelectsB ==
  [][\A t \in Threads :
       /\ Tied(loc'[t]) => loc'[t].button = "B" /\ loc'[t].arm = "B"
       /\ (Tied(loc[t]) /\ Steps(t)) =>
            views' = IF pc[t] = "add_view_store"
                     THEN [views EXCEPT !["B"] = loc[t].tmp + 1]
                     ELSE views
       /\ (Tied(loc[t]) /\ Answers(t)) => response' = "B"]_vars

\* C10's case: a tied show has called add_view and is about to return, with
\* B's views above the seed and A's at the seed
C10_Witness ==
  \E t \in Threads :
    /\ Tied(loc[t])
    /\ pc[t] = "show_return"
    /\ views["B"] > SeedViews(kind)
    /\ views["A"] = SeedViews(kind)

\* C11: in a sequential run of the classic server, whatever clicks were
\* reported, the k-th show credits A when k is odd and B when k is even, so
\* after n shows A has (n+1) div 2 views and B has n div 2: they differ by
\* at most 1.
C11_ClassicAlternates ==
  kind = "classic" =>
    /\ \A t \in Threads :
         pc[t] \in {"add_view_load", "add_view_store", "show_toggle",
                    "show_return"} =>
           loc[t].arm = (IF loc[t].rec % 2 = 1 THEN "A" ELSE "B")
    /\ Quiescent =>
         /\ views["A"] = SeedViews(kind) + (Len(decisions) + 1) \div 2
         /\ views["B"] = SeedViews(kind) + Len(decisions) \div 2

\* C11's case: three shows and a click have been answered
C11_Witness ==
  /\ kind = "classic"
  /\ Quiescent
  /\ Len(decisions) >= 3
  /\ clicks["A"] + clicks["B"] >= 1

\* C12: in the UCB1 server under sequential use, between requests each
\* arm's ctr_estimate equals clicks / views recomputed from its counters,
\* and lies in [0, 1].
C12_RunningMean ==
  (kind = "ucb1" /\ Quiescent) =>
    \A a \in Arms :
      /\ ctr_estimate[a] = Frac(clicks[a], views[a])
      /\ 0 <= ctr_estimate[a][1]
      /\ ctr_estimate[a][1] <= ctr_estimate[a][2]

\* C13: a snapshot changes none of views, clicks, priors and ctr_estimate,
\* and any two snapshots with no add_view or add_click completed between
\* them have read the same views, clicks and Beta parameters.
C13_SnapshotReadOnly ==
  [][snapshots' # snapshots =>
       /\ views' = views
       /\ clicks' = clicks
       /\ prior' = prior
       /\ ctr_estimate' = ctr_estimate
       /\ \A i, j \in DOMAIN snapshots' :
            snapshots'[i].at = snapshots'[j].at =>
              snapshots'[i].saw = snapshots'[j].saw]_vars

\* C13's case: two snapshots were taken with no add_view or add_click
\* between them
C13_Witness ==
  /\ Len(snapshots) >= 2
  /\ snapshots[1].at = snapshots[2].at

\* C14: every show decision is classified exactly once as exploring or
\* exploiting: between requests, explorations + exploitations equals the
\* number of decisions.
C14_EveryDecisionClassified ==
  Quiescent => explorations + exploitations = Len(decisions)

\* thread t's show handler takes the step
ShowStep(t) == Steps(t) /\ (loc[t].op = "show" \/ loc'[t].op = "show")

\* C15: a show handler's steps leave clicks and ctr_estimate unchanged, its
\* append adds one record 0 and no other step of it changes the log, its
\* add_view raises the views of one arm by exactly 1 and no other step of it
\* changes views; and clicks change only in a step of click_button.
C15_ShowFrame ==
  [][/\ \A t \in Threads :
          ShowStep(t) =>
            /\ clicks' = clicks
            /\ ctr_estimate' = ctr_estimate
            /\ decisions' = IF loc'[t].rec # loc[t].rec /\ pc'[t] # "idle"
                             THEN Append(decisions, 0)
                             ELSE decisions
            /\ views' = IF pc[t] = "add_view_store"
                         THEN [views EXCEPT ![loc[t].arm] = @ + 1]
                         ELSE views
     /\ clicks' # clicks =>
          \E t \in Threads : loc[t].op = "click" /\ Steps(t)]_vars

\* C16: a click_button request whose button is neither "A" nor "B" changes
\* no counter and no decision record, and is answered "Invalid Input.",
\* never with an exception.
C16_InvalidButtonRejected ==
  [][\A t \in Threads :
       (loc[t].op = "click" /\ loc[t].button \notin Arms /\ Steps(t)) =>
         /\ clicks' = clicks
         /\ views' = views
         /\ decisions' = decisions
         /\ (pc'[t] = "idle" => response' = "Invalid Input.")]_vars

\* C17: when the only caller is the sequential client, the index click_button
\* writes (total views less 1, less 3 in the UCB1 server) is the index of
\* the last record of the log, which is the record of the latest show, and
\* the write sets that record.
C17_ClientIndex ==
  [][\A t \in Threads :
       (pc[t] = "mark" /\ Steps(t)) =>
         /\ views["A"] + views["B"] - Offset(kind) = Len(decisions) - 1
         /\ Len(decisions) >= 1
         /\ loc[t].rec = Len(decisions)
         /\ decisions' = [decisions EXCEPT ![Len(decisions)] = 1]]_vars

\* C17's case: the client's click has written the latest record of the UCB1
\* server's log after two shows or more
C17_Witness ==
  \E t \in Threads :
    /\ kind = "ucb1"
    /\ pc[t] = "click_return"
    /\ Len(decisions) >= 2
    /\ loc[t].rec = Len(decisions)
    /\ decisions[Len(decisions)] = 1

\* C18: when the only caller is the sequential client, in each server each
\* arm's clicks never exceed the views show has credited to it (its views
\* less the seeded view).
C18_ClientClicksWithinViews ==
  \A a \in Arms : clicks[a] <= views[a] - SeedViews(kind)

\* C19: in every state of the Thompson server between requests, reached
\* without a failed request, both Beta parameters of both arms are strictly
\* positive, so the sampler of the next show cannot fail.
C19_BetaParametersPositive ==
  (kind = "thompson" /\ Quiescent /\ ~raised) => \A a \in Arms : BetaOk(a)

\* C20: when the server has stopped and a results row is written for the
\* Thompson arms, its alpha and beta are the parameters sample() draws from,
\* a_prior + clicks and b_prior + views - clicks.
C20_ResultsRowPosterior ==
  (kind = "thompson" /\ Quiescent /\ ResultsRowWritten) =>
    \A a \in Arms :
      /\ ResultsAlpha(a) = BetaA(a)
      /\ ResultsBeta(a) = BetaB(a)

====
